---- MODULE Spec2Model ----
(***************************************************************************)
(* Model of src/pages/post/[slug].tsx: the Post page component (reading    *)
(* time, edit notice, navigation slots, fallback branch, comment-widget    *)
(* effect) and the data functions getStaticPaths / getStaticProps.         *)
(*                                                                         *)
(* Three specifications share the module's variables:                      *)
(*   SpecReadingTime  the reduce of lines 50-57 over a content sequence    *)
(*   SpecStaticProps  one run of getStaticProps against a document store   *)
(*   Spec             one page view of the Post component                  *)
(* Text is a sequence of characters; "w" is a one-letter word and " " a    *)
(* whitespace character, so that split(/\s+/g) is computed on characters.  *)
(***************************************************************************)
EXTENDS Integers, Sequences, FiniteSets

VARIABLES
    content, idx, acc, readingTime,
    documents, slug, gpc, fetchStatus, response, prevPostQuery, nextPostQuery,
    fetches, queries, result,
    isFallback, props, view, output, scripts, updates

readingVars == <<content, idx, acc, readingTime>>
staticVars == <<documents, slug, gpc, fetchStatus, response, prevPostQuery,
                nextPostQuery, fetches, queries, result>>
pageVars == <<isFallback, props, view, output, scripts, updates>>
vars == <<readingVars, staticVars, pageVars>>

(***************************************************************************)
(* Bounds of the model.                                                    *)
(***************************************************************************)
MaxSections == 2
MaxFragments == 1
NumPosts == 3
MaxTime == 3
MaxDate == 2
MaxUpdates == 1

(***************************************************************************)
(* Text.                                                                   *)
(***************************************************************************)
Space == " "

\* n one-letter words separated by single spaces
Words(n) == [i \in 1..(IF n = 0 THEN 0 ELSE 2 * n - 1) |->
                IF i % 2 = 1 THEN "w" ELSE Space]

SeqsUpTo(S, n) == UNION {[1..k -> S] : k \in 0..n}

\* word counts of the sample body fragments and headings
FragmentWords == {9, 200, 249}
HeadingWords == {0, 1}

Fragments == {[text |-> Words(n)] : n \in FragmentWords}
Headings == {Words(n) : n \in HeadingWords}
Sections == {[heading |-> h, body |-> b] :
                h \in Headings, b \in SeqsUpTo(Fragments, MaxFragments)}
Contents == SeqsUpTo(Sections, MaxSections)

(***************************************************************************)
(* Reading time (lines 50-57).                                             *)
(***************************************************************************)
WordsPerMinute == 200

\* RichText.asText(body): the fragments' text joined by one space
RECURSIVE AsText(_)
AsText(body) ==
    IF Len(body) = 0 THEN <<>>
    ELSE IF Len(body) = 1 THEN body[1].text
    ELSE body[1].text \o <<Space>> \o AsText(Tail(body))

\* variant of SplitCount that drops the empty tokens (counts the words of s)
SplitCountWords(s) ==
    Cardinality({i \in 1..Len(s) : s[i] # Space /\ (i = 1 \/ s[i - 1] = Space)})

\* s.split(/\s+/g).length: one token more than the maximal whitespace runs
\* of s; the empty string splits into one empty token
SplitCount(s) ==
    1 + Cardinality({i \in 1..Len(s) : s[i] = Space /\ (i = 1 \/ s[i - 1] # Space)})

\* wordsTotal of one section (lines 51-54)
WordsTotal(current) ==
    LET wordsBody == SplitCount(AsText(current.body))
        wordsHeading == SplitCount(current.heading)
    IN  wordsBody + wordsHeading

\* Math.ceil(n / d) for n >= 0, d > 0
CeilDiv(n, d) == (n + d - 1) \div d

\* variant of ReduceCallback rounding down
ReduceCallbackFloor(a, current) ==
    (a * WordsPerMinute + WordsTotal(current)) \div WordsPerMinute

\* the reduce callback: Math.ceil(acc + wordsTotal / 200), acc an integer
ReduceCallback(a, current) ==
    CeilDiv(a * WordsPerMinute + WordsTotal(current), WordsPerMinute)

\* post.data.content.reduce(callback, 0)
RECURSIVE Reduce(_, _)
Reduce(c, a) ==
    IF Len(c) = 0 THEN a ELSE Reduce(Tail(c), ReduceCallback(a, Head(c)))

ReadingTime(c) == Reduce(c, 0)

NotComputed == 0 - 1

(***************************************************************************)
(* SpecReadingTime: the reduce, one callback invocation per step.          *)
(***************************************************************************)
IdleReading ==
    /\ content = <<>>
    /\ idx = 1
    /\ acc = 0
    /\ readingTime = NotComputed

InitReading ==
    /\ content \in Contents
    /\ idx = 1
    /\ acc = 0
    /\ readingTime = NotComputed

\* one invocation of the reduce callback on content[idx]
ReduceStep ==
    /\ readingTime = NotComputed
    /\ idx <= Len(content)
    /\ acc' = ReduceCallback(acc, content[idx])
    /\ idx' = idx + 1
    /\ UNCHANGED <<content, readingTime>>

\* reduce returns the accumulator: const readingTime = ...
ReduceDone ==
    /\ readingTime = NotComputed
    /\ idx > Len(content)
    /\ readingTime' = acc
    /\ UNCHANGED <<content, idx, acc>>

(***************************************************************************)
(* Documents of the content store and the two client calls.                *)
(***************************************************************************)
Uid(i) == <<"post", i>>
Title(i) == <<"Title", i>>

Doc(i, d) ==
    [id |-> i, uid |-> Uid(i), first_publication_date |-> d,
     data |-> [title |-> Title(i)]]

\* stores of 1..NumPosts published posts, timestamps not necessarily distinct
Stores == UNION {{[i \in 1..n |-> Doc(i, t[i])] : t \in [1..n -> 1..MaxTime]} :
                    n \in 1..NumPosts}

\* the listings of the store a query ordered by first_publication_date may
\* produce: sorted by timestamp, documents of equal timestamp in any order
Orderings(docs, desc) ==
    {o \in [1..Len(docs) -> 1..Len(docs)] :
        /\ \A i, j \in 1..Len(docs) : i # j => o[i] # o[j]
        /\ \A i \in 1..Len(docs) - 1 :
              IF desc
              THEN docs[o[i]].first_publication_date >=
                   docs[o[i + 1]].first_publication_date
              ELSE docs[o[i]].first_publication_date <=
                   docs[o[i + 1]].first_publication_date}

Position(o, id) == IF \E k \in 1..Len(o) : o[k] = id
                   THEN CHOOSE k \in 1..Len(o) : o[k] = id
                   ELSE 0

\* variant of After that keeps the cursor document itself
AfterInclusive(o, id) ==
    IF Position(o, id) = 0 THEN o ELSE SubSeq(o, Position(o, id), Len(o))

\* the `after` option: the documents listed after document id (all of them
\* when no cursor is given, id 0)
After(o, id) == SubSeq(o, Position(o, id) + 1, Len(o))

\* the pageSize option: the first n entries
Page(o, n) == SubSeq(o, 1, IF Len(o) < n THEN Len(o) ELSE n)

PageSize == 1

\* results of prismic.query(..., {pageSize: 1, after, orderings}) for one
\* listing o of the store
QueryResults(docs, o, afterId) ==
    LET ids == Page(After(o, afterId), PageSize)
    IN  [k \in 1..Len(ids) |-> docs[ids[k]]]

\* variant of EvalResponseId that reads the id with optional chaining
EvalResponseIdOptional(r) ==
    IF r = <<>> THEN [threw |-> FALSE, id |-> 0]
    ELSE [threw |-> FALSE, id |-> r[1].id]

\* response.id (line 202): a TypeError when response is undefined
EvalResponseId(r) ==
    IF r = <<>> THEN [threw |-> TRUE, id |-> 0]
    ELSE [threw |-> FALSE, id |-> r[1].id]

\* variant of Neighbor that takes the slug for the title
NeighborSlugOnly(results) ==
    IF Len(results) = 0 THEN <<>>
    ELSE <<[title |-> results[1].uid, slug |-> results[1].uid]>>

\* results[0] ? {title: results[0]?.data.title, slug: results[0]?.uid} : null
Neighbor(results) ==
    IF Len(results) = 0 THEN <<>>
    ELSE <<[title |-> results[1].data.title, slug |-> results[1].uid]>>

(***************************************************************************)
(* SpecStaticProps: getStaticProps, one step per awaited call.             *)
(***************************************************************************)
IdleStatic ==
    /\ documents = <<>>
    /\ slug = Uid(0)
    /\ gpc = "idle"
    /\ fetchStatus = "pending"
    /\ response = <<>>
    /\ prevPostQuery = <<>>
    /\ nextPostQuery = <<>>
    /\ fetches = 0
    /\ queries = 0
    /\ result = <<>>

InitStatic ==
    /\ documents \in Stores
    /\ slug \in {Uid(i) : i \in 1..Len(documents) + 1}
    /\ gpc = "start"
    /\ fetchStatus = "pending"
    /\ response = <<>>
    /\ prevPostQuery = <<>>
    /\ nextPostQuery = <<>>
    /\ fetches = 0
    /\ queries = 0
    /\ result = <<>>

Found == {i \in 1..Len(documents) : documents[i].uid = slug}

\* await prismic.getByUID('posts', String(slug), {}) resolves with the document
GetByUIDFound ==
    /\ gpc = "start"
    /\ \E i \in Found :
          /\ response' = <<documents[i]>>
          /\ fetchStatus' = "ok"
          /\ gpc' = "fetched"
    /\ fetches' = fetches + 1
    /\ UNCHANGED <<documents, slug, prevPostQuery, nextPostQuery, queries, result>>

\* no document has the uid: the client resolves with undefined
GetByUIDUndefined ==
    /\ gpc = "start"
    /\ Found = {}
    /\ response' = <<>>
    /\ fetchStatus' = "undefined"
    /\ gpc' = "fetched"
    /\ fetches' = fetches + 1
    /\ UNCHANGED <<documents, slug, prevPostQuery, nextPostQuery, queries, result>>

\* the request fails (not found reported as an error, or the network): the
\* await throws and getStaticProps rejects
GetByUIDRejected ==
    /\ gpc = "start"
    /\ fetchStatus' = "rejected"
    /\ gpc' = "failed"
    /\ fetches' = fetches + 1
    /\ UNCHANGED <<documents, slug, response, prevPostQuery, nextPostQuery,
                   queries, result>>

\* lines 198-205: the options object is built (response.id) and the ascending
\* query is awaited
PrevPostQuery ==
    /\ gpc = "fetched"
    /\ LET cursor == EvalResponseId(response)
       IN  IF cursor.threw
           THEN /\ gpc' = "failed"
                /\ UNCHANGED <<prevPostQuery, queries>>
           ELSE /\ queries' = queries + 1
                /\ \E o \in Orderings(documents, FALSE) :
                      prevPostQuery' = QueryResults(documents, o, cursor.id)
                /\ gpc' = "prevQueried"
    /\ UNCHANGED <<documents, slug, fetchStatus, response, nextPostQuery,
                   fetches, result>>

\* lines 207-214: the descending query is awaited
NextPostQuery ==
    /\ gpc = "prevQueried"
    /\ LET cursor == EvalResponseId(response)
       IN  IF cursor.threw
           THEN /\ gpc' = "failed"
                /\ UNCHANGED <<nextPostQuery, queries>>
           ELSE /\ queries' = queries + 1
                /\ \E o \in Orderings(documents, TRUE) :
                      nextPostQuery' = QueryResults(documents, o, cursor.id)
                /\ gpc' = "nextQueried"
    /\ UNCHANGED <<documents, slug, fetchStatus, response, prevPostQuery,
                   fetches, result>>

\* a neighbour query is issued and fails: the await throws
QueryRejected ==
    /\ gpc \in {"fetched", "prevQueried"}
    /\ ~EvalResponseId(response).threw
    /\ queries' = queries + 1
    /\ gpc' = "failed"
    /\ UNCHANGED <<documents, slug, fetchStatus, response, prevPostQuery,
                   nextPostQuery, fetches, result>>

\* lines 216-250: the neighbours, the post and the returned object
Return ==
    /\ gpc = "nextQueried"
    /\ IF response = <<>>
       THEN /\ gpc' = "failed"
            /\ UNCHANGED result
       ELSE /\ result' =
                 <<[props |->
                      [post |-> [uid |-> response[1].uid,
                                 first_publication_date |->
                                     response[1].first_publication_date,
                                 data |-> [title |-> response[1].data.title]],
                       prevPost |-> Neighbor(prevPostQuery),
                       nextPost |-> Neighbor(nextPostQuery)],
                    revalidate |-> 1]>>
            /\ gpc' = "done"
    /\ UNCHANGED <<documents, slug, fetchStatus, response, prevPostQuery,
                   nextPostQuery, fetches, queries>>

(***************************************************************************)
(* The Post component (lines 49-170).                                      *)
(***************************************************************************)
\* first_publication_date / last_publication_date: string | null
NullDate == 0

\* getStaticPaths returns fallback: true (line 188)
fallback == TRUE

PageContents == {c \in Contents : Len(c) <= 1}

PagePosts ==
    {[uid |-> Uid(1), first_publication_date |-> f, last_publication_date |-> l,
      data |-> [title |-> Title(1), content |-> c]] :
        f \in 1..MaxDate, l \in {NullDate} \cup 1..MaxDate, c \in PageContents}

\* a publication is never re-published before it was first published
WellDated(p) ==
    p.last_publication_date = NullDate
        \/ p.last_publication_date >= p.first_publication_date

NeighborRefs == {<<>>, <<[title |-> Title(2), slug |-> Uid(2)]>>}

\* the props getStaticProps supplies
PageProps ==
    {[post |-> <<p>>, prevPost |-> a, nextPost |-> b] :
        p \in {q \in PagePosts : WellDated(q)}, a \in NeighborRefs, b \in NeighborRefs}

\* the props of the fallback render: none supplied, post is undefined
EmptyProps == [post |-> <<>>, prevPost |-> <<>>, nextPost |-> <<>>]

NoMarkup ==
    [kind |-> "none", readingTime |-> 0, editNotice |-> FALSE,
     leftSlot |-> <<>>, rightSlot |-> <<>>, comments |-> FALSE]

\* <p>Carregando...</p> (lines 77-79)
LoadingMarkup(rt) ==
    [kind |-> "loading", readingTime |-> rt, editNotice |-> FALSE,
     leftSlot |-> <<>>, rightSlot |-> <<>>, comments |-> FALSE]

\* {post.last_publication_date && (<span>...</span>)} (lines 117-127)
EditNotice(post) == post.last_publication_date # NullDate

\* {prevPost ? <Link .../> : <div />} (lines 141-161): <<>> is the empty
\* placeholder
Slot(neighbor, label) ==
    IF neighbor # <<>>
    THEN <<[href |-> neighbor[1].slug, title |-> neighbor[1].title, label |-> label]>>
    ELSE <<>>

\* the markup of lines 81-169
PostMarkup(p, rt) ==
    [kind |-> "post", readingTime |-> rt, editNotice |-> EditNotice(p.post[1]),
     leftSlot |-> Slot(p.prevPost, "Post anterior"),
     rightSlot |-> Slot(p.nextPost, "Proximo post"),
     comments |-> TRUE]

\* one call of Post(props): post.data.content is read first (line 50) and
\* throws a TypeError when post is undefined; the isFallback test comes after
Render(p, fb) ==
    IF p.post = <<>>
    THEN [threw |-> TRUE, markup |-> NoMarkup]
    ELSE LET rt == ReadingTime(p.post[1].data.content)
         IN  IF fb
             THEN [threw |-> FALSE, markup |-> LoadingMarkup(rt)]
             ELSE [threw |-> FALSE, markup |-> PostMarkup(p, rt)]

(***************************************************************************)
(* Spec: one page view of the Post component.                              *)
(***************************************************************************)
IdlePage ==
    /\ isFallback = FALSE
    /\ props = EmptyProps
    /\ view = "idle"
    /\ output = NoMarkup
    /\ scripts = 0
    /\ updates = 0

InitPage ==
    /\ isFallback \in (IF fallback THEN BOOLEAN ELSE {FALSE})
    /\ props \in (IF isFallback THEN {EmptyProps} ELSE PageProps)
    /\ view = "unmounted"
    /\ output = NoMarkup
    /\ scripts = 0
    /\ updates = 0

\* the first render, its commit, and the useEffect(..., []) callback of lines
\* 60-75: document.getElementById('comments') is null unless the post markup
\* was committed, and comments.appendChild then throws
Mount ==
    /\ view = "unmounted"
    /\ LET r == Render(props, isFallback)
       IN  IF r.threw
           THEN /\ view' = "crashed"
                /\ UNCHANGED <<output, scripts>>
           ELSE /\ output' = r.markup
                /\ IF r.markup.comments
                   THEN /\ scripts' = scripts + 1
                        /\ view' = "mounted"
                   ELSE /\ view' = "crashed"
                        /\ UNCHANGED scripts
    /\ UNCHANGED <<isFallback, props, updates>>

\* a re-render of the mounted component with new props: the effect has an
\* empty dependency list and does not run again
Rerender(p, fb) ==
    IF view = "mounted"
    THEN LET r == Render(p, fb)
         IN  IF r.threw
             THEN view' = "crashed" /\ UNCHANGED output
             ELSE view' = "mounted" /\ output' = r.markup
    ELSE UNCHANGED <<view, output>>

\* the on-demand generation finished: isFallback turns false and the props
\* of getStaticProps arrive
FallbackDataLoaded ==
    /\ view # "unmounted"
    /\ isFallback
    /\ isFallback' = FALSE
    /\ \E p \in PageProps :
          /\ props' = p
          /\ Rerender(p, FALSE)
    /\ UNCHANGED <<scripts, updates>>

\* the post data changes during the page view (revalidation, navigation to
\* another post on the same route)
PropsChange ==
    /\ view = "mounted"
    /\ ~isFallback
    /\ updates < MaxUpdates
    /\ updates' = updates + 1
    /\ \E p \in PageProps :
          /\ props' = p
          /\ Rerender(p, FALSE)
    /\ UNCHANGED <<isFallback, scripts>>

(***************************************************************************)
(* Specifications.                                                         *)
(***************************************************************************)
InitReadingTime == InitReading /\ IdleStatic /\ IdlePage

NextReadingTime ==
    \/ ReduceStep /\ UNCHANGED <<staticVars, pageVars>>
    \/ ReduceDone /\ UNCHANGED <<staticVars, pageVars>>

SpecReadingTime == InitReadingTime /\ [][NextReadingTime]_vars

InitStaticProps == IdleReading /\ InitStatic /\ IdlePage

NextStaticProps ==
    \/ GetByUIDFound /\ UNCHANGED <<readingVars, pageVars>>
    \/ GetByUIDUndefined /\ UNCHANGED <<readingVars, pageVars>>
    \/ GetByUIDRejected /\ UNCHANGED <<readingVars, pageVars>>
    \/ PrevPostQuery /\ UNCHANGED <<readingVars, pageVars>>
    \/ NextPostQuery /\ UNCHANGED <<readingVars, pageVars>>
    \/ QueryRejected /\ UNCHANGED <<readingVars, pageVars>>
    \/ Return /\ UNCHANGED <<readingVars, pageVars>>

SpecStaticProps == InitStaticProps /\ [][NextStaticProps]_vars

Init == IdleReading /\ IdleStatic /\ InitPage

Next ==
    \/ Mount /\ UNCHANGED <<readingVars, staticVars>>
    \/ FallbackDataLoaded /\ UNCHANGED <<readingVars, staticVars>>
    \/ PropsChange /\ UNCHANGED <<readingVars, staticVars>>

Spec == Init /\ [][Next]_vars

(***************************************************************************)
(* Reading time: claims C1, C2, C9.                                        *)
(***************************************************************************)
\* the ceiling of n / d by its definition: the least k with k * d >= n
CeilingOf(n, d) == CHOOSE k \in 0..n : k * d >= n /\ (k = 0 \/ (k - 1) * d < n)

\* the left-to-right fold acc := ceil(acc + w_i / 200) from a
RECURSIVE CumulativeFold(_, _)
CumulativeFold(c, a) ==
    IF Len(c) = 0 THEN a
    ELSE CumulativeFold(Tail(c),
            CeilingOf(a * WordsPerMinute + WordsTotal(Head(c)), WordsPerMinute))

RECURSIVE SumWords(_)
SumWords(c) == IF Len(c) = 0 THEN 0 ELSE WordsTotal(Head(c)) + SumWords(Tail(c))

Sizes250And10 ==
    /\ Len(content) = 2
    /\ WordsTotal(content[1]) = 250
    /\ WordsTotal(content[2]) = 10

C2_TwoHundredWordsIsOneMinute ==
    ( /\ readingTime # NotComputed
      /\ Len(content) = 1
      /\ content[1].heading = <<>>
      /\ SplitCountWords(AsText(content[1].body)) = 200 )
        => readingTime = 1

\* C9: each of the two splits of a section yields at least one token, the
\* running total strictly increases with every section folded in, and the
\* reading time of n sections is at least n.
C9_StrictlyIncreasing ==
    /\ [](/\ \A k \in 1..Len(content) :
                /\ SplitCount(content[k].heading) >= 1
                /\ SplitCount(AsText(content[k].body)) >= 1
          /\ acc >= idx - 1
          /\ readingTime # NotComputed => readingTime >= Len(content))
    /\ [][idx' # idx => acc' > acc]_vars

EmptySection(s) == s.heading = <<>> /\ s.body = <<>>

C9_Witness ==
    /\ readingTime = 2
    /\ Len(content) = 2
    /\ EmptySection(content[1])
    /\ EmptySection(content[2])

(***************************************************************************)
(* getStaticProps: claims C4, C7, C8, C10.                                 *)
(***************************************************************************)
Current == response[1]

Ref(d) == <<[title |-> d.data.title, slug |-> d.uid]>>

DocSet == {documents[i] : i \in 1..Len(documents)}

Earlier == {d \in DocSet : d.first_publication_date < Current.first_publication_date}
Later == {d \in DocSet : d.first_publication_date > Current.first_publication_date}

\* the posts with the latest first-publication time earlier than the current's
Predecessors ==
    {d \in Earlier : \A e \in Earlier :
        e.first_publication_date <= d.first_publication_date}

\* the posts with the earliest first-publication time later than the current's
Successors ==
    {d \in Later : \A e \in Later :
        e.first_publication_date >= d.first_publication_date}

IsNeighborOf(ref, S) == IF S = {} THEN ref = <<>> ELSE \E d \in S : ref = Ref(d)

\* C4: prevPost is the chronological predecessor of the current post and
\* nextPost its chronological successor; a post with no predecessor gets
\* prevPost = null.
C4_ChronologicalNeighbors ==
    gpc = "done" =>
        /\ IsNeighborOf(result[1].props.prevPost, Predecessors)
        /\ IsNeighborOf(result[1].props.nextPost, Successors)

\* C7: a neighbour query with no result gives a null neighbour, a query with a
\* result gives the {title, slug} of its first result, and once both queries
\* have returned getStaticProps returns props holding the post.
C7_NeighborProjection ==
    /\ [](gpc = "done" =>
            /\ result # <<>>
            /\ result[1].props.post.uid = slug
            /\ result[1].props.prevPost =
                  (IF Len(prevPostQuery) = 0 THEN <<>>
                   ELSE <<[title |-> prevPostQuery[1].data.title,
                           slug |-> prevPostQuery[1].uid]>>)
            /\ result[1].props.nextPost =
                  (IF Len(nextPostQuery) = 0 THEN <<>>
                   ELSE <<[title |-> nextPostQuery[1].data.title,
                           slug |-> nextPostQuery[1].uid]>>))
    /\ [][gpc = "nextQueried" => gpc' = "done"]_vars

C7_Witness ==
    /\ gpc = "done"
    /\ Len(prevPostQuery) = 0
    /\ Len(nextPostQuery) = 1
    /\ result[1].props.prevPost = <<>>
    /\ result[1].props.nextPost # <<>>

FetchFailed == fetchStatus \in {"undefined", "rejected"}

\* C8: when the fetch by uid fails, getStaticProps fails: it returns no props,
\* the fetch was made once, and no neighbour query is issued.
C8_FetchFailurePropagates ==
    /\ [](FetchFailed =>
            /\ result = <<>>
            /\ fetches = 1
            /\ queries = 0
            /\ gpc \in {"fetched", "failed"})
    /\ [][FetchFailed /\ gpc = "fetched" => gpc' = "failed"]_vars

C8_Witness ==
    /\ fetchStatus = "undefined"
    /\ gpc = "failed"
    /\ queries = 0
    /\ result = <<>>

DistinctTimes ==
    \A i, j \in 1..Len(documents) :
        i # j => documents[i].first_publication_date #
                 documents[j].first_publication_date

\* C10: with pairwise distinct first-publication timestamps, neither prevPost
\* nor nextPost is the current post, and when both are present they are two
\* different posts.
C10_NeighborsAreOtherPosts ==
    (gpc = "done" /\ DistinctTimes) =>
        /\ result[1].props.prevPost # Ref(Current)
        /\ result[1].props.nextPost # Ref(Current)
        /\ (result[1].props.prevPost # <<>> /\ result[1].props.nextPost # <<>>)
              => result[1].props.prevPost # result[1].props.nextPost

C10_Witness ==
    /\ gpc = "done"
    /\ DistinctTimes
    /\ result[1].props.prevPost # <<>>
    /\ result[1].props.nextPost # <<>>

(***************************************************************************)
(* The page view: claims C3, C5, C6.                                       *)
(***************************************************************************)
\* C3: the edit notice is rendered if and only if last_publication_date is
\* present and different from first_publication_date.
C3_EditNoticeOnlyWhenEdited ==
    (view = "mounted" /\ output.kind = "post") =>
        (output.editNotice <=>
            /\ props.post[1].last_publication_date # NullDate
            /\ props.post[1].last_publication_date #
                  props.post[1].first_publication_date)

\* C5: a render in the fallback state completes and shows the loading
\* placeholder.
C5_FallbackRendersPlaceholder ==
    (view # "unmounted" /\ isFallback) =>
        /\ view = "mounted"
        /\ output.kind = "loading"

\* C6: once the component was displayed, the comment-widget script has been
\* attached exactly once, whatever renders followed.
C6_ScriptAttachedExactlyOnce ==
    view # "unmounted" => scripts = 1

====
